---- MODULE Spec2Model ----
(***************************************************************************)
(* Model of the tableparser package of go-toolkit: the CREATE TABLE        *)
(* parser (Parse, Getengine, Getcharset, GetKeys, parseIndexColumns) and   *)
(* the index selector (Sortindexes, Findbestindex).                        *)
(* GetFks, the version package (Validate, Major, Minor, Release,           *)
(* Normalized, Compare) and the quoter package (Backtick, Splitunbacktick)  *)
(* and the dsn package (Validate, Parse, Getconn) follow, each with a       *)
(* specification of its own; KeysSpec runs GetKeys alone.                  *)
(*                                                                         *)
(* Texts are TLA+ strings.  The quote character \x60 of the source cannot  *)
(* be written inside a TLA+ string, so it is written as the apostrophe     *)
(* (BQ) in the texts of tableparser and quoter, none of which contains a   *)
(* real apostrophe.                                                        *)
(***************************************************************************)
EXTENDS Integers, Sequences, FiniteSets, TLC

VARIABLES op, ddl, parsed, tbl, arg, enum, idxs, best, kres,
          ver, ver2, vres,
          qparts, qdef, qtext, qres,
          dpkg, dtext, dsn, dres, handles, trace

tableVars == <<ddl, parsed, tbl, arg, enum, idxs, best, kres>>

versionVars == <<ver, ver2, vres>>

quoterVars == <<qparts, qdef, qtext, qres>>

dsnVars == <<dpkg, dtext, dsn, dres, handles, trace>>

vars == <<op, tableVars, versionVars, quoterVars, dsnVars>>

----------------------------------------------------------------------------
(* Text helpers: the strings and regexp primitives the package relies on.  *)

BQ == "'"
NL == "\n"
WS == {" ", "\n", "\t", "\r", "\f"}
Digits == {"0", "1", "2", "3", "4", "5", "6", "7", "8", "9"}

Min(S) == CHOOSE m \in S : \A n \in S : m <= n
Max(S) == CHOOSE m \in S : \A n \in S : m >= n

Char(s, i) == IF i >= 1 /\ i <= Len(s) THEN SubSeq(s, i, i) ELSE ""

\* the text p occurs in s at position i
HasAt(s, i, p) ==
    /\ i >= 1
    /\ i + Len(p) - 1 <= Len(s)
    /\ SubSeq(s, i, i + Len(p) - 1) = p

\* strings.Contains
Contains(s, p) == \E i \in 1..(Len(s) - Len(p) + 1) : HasAt(s, i, p)

\* first position >= i whose character is in C, 0 when there is none
FirstIn(s, i, C) ==
    LET S == {j \in i..Len(s) : Char(s, j) \in C}
    IN  IF S = {} THEN 0 ELSE Min(S)

\* first position >= i whose character is not in C, Len(s)+1 when none
FirstNotIn(s, i, C) ==
    LET S == {j \in i..Len(s) : Char(s, j) \notin C}
    IN  IF S = {} THEN Len(s) + 1 ELSE Min(S)

\* position of the last character of the line that holds position i
\* ("." does not match a newline, "$" under (?m) matches before one)
LineEnd(s, i) ==
    LET n == FirstIn(s, i, {NL})
    IN  IF n = 0 THEN Len(s) ELSE n - 1

\* "^" under (?m): i is the start of the text or follows a newline
IsLineStart(s, i) == i = 1 \/ Char(s, i - 1) = NL

RECURSIVE Split(_, _)
Split(s, sep) ==
    LET j == FirstIn(s, 1, {sep})
    IN  IF j = 0 THEN <<s>>
        ELSE <<SubSeq(s, 1, j - 1)>> \o Split(SubSeq(s, j + 1, Len(s)), sep)

RECURSIVE TrimRight(_, _)
TrimRight(s, c) ==
    IF Len(s) > 0 /\ Char(s, Len(s)) = c
    THEN TrimRight(SubSeq(s, 1, Len(s) - 1), c) ELSE s

RECURSIVE TrimLeft(_, _)
TrimLeft(s, c) ==
    IF Len(s) > 0 /\ Char(s, 1) = c
    THEN TrimLeft(SubSeq(s, 2, Len(s)), c) ELSE s

RECURSIVE ReplaceAll(_, _, _)
ReplaceAll(s, old, new) ==
    IF Len(s) = 0 THEN s
    ELSE IF HasAt(s, 1, old)
         THEN new \o ReplaceAll(SubSeq(s, Len(old) + 1, Len(s)), old, new)
         ELSE Char(s, 1) \o ReplaceAll(SubSeq(s, 2, Len(s)), old, new)

DigitVal(c) == CHOOSE d \in 0..9 : Char("0123456789", d + 1) = c

RECURSIVE Atoi(_)
Atoi(s) ==
    IF Len(s) = 0 THEN 0
    ELSE 10 * Atoi(SubSeq(s, 1, Len(s) - 1)) + DigitVal(Char(s, Len(s)))

----------------------------------------------------------------------------
(* regexp.FindAllStringSubmatch for the line-anchored patterns: m maps each *)
(* line start to the match attempted there, [end |-> 0] when the pattern    *)
(* does not match at that place.  Matches are taken leftmost first and do   *)
(* not overlap.                                                             *)

NoMatch == [end |-> 0, sub |-> <<>>]

LineStarts(s) == {i \in 1..Len(s) : IsLineStart(s, i)}

RECURSIVE Scan(_, _)
Scan(m, pos) ==
    LET C == {i \in DOMAIN m : i >= pos /\ m[i].end # 0}
    IN  IF C = {} THEN <<>>
        ELSE LET i == Min(C) IN <<m[i].sub>> \o Scan(m, m[i].end + 1)

\* the tail "\((.*)\),*$" of the key patterns, tried with "(" at position p:
\* the position of the closing ")" or 0
KeyTailClose(s, p) ==
    LET e == LineEnd(s, p)
        C == {j \in (p + 1)..e : Char(s, j) # ","}
        r == IF C = {} THEN 0 ELSE Max(C)
    IN  IF Char(s, p) = "(" /\ r # 0 /\ Char(s, r) = ")" THEN r ELSE 0

----------------------------------------------------------------------------
(* parseIndexColumns                                                        *)

\* recolpref applied to one element of the column list: <<>> when the
\* element holds no quote character, else <<column with quotes, prefix>>
ColPrefMatch(value) ==
    LET b == FirstIn(value, 1, {BQ})
    IN  IF b = 0 THEN <<>>
        ELSE LET p  == FirstIn(value, b + 1, {"("})
                 g1 == IF p = 0 THEN SubSeq(value, b, Len(value))
                       ELSE SubSeq(value, b, p - 1)
                 d  == IF p = 0 THEN 0 ELSE FirstNotIn(value, p + 1, Digits)
                 g2 == IF p # 0 /\ Char(value, d) = ")"
                       THEN SubSeq(value, p + 1, d - 1) ELSE ""
             IN  <<g1, g2>>

KeyColInfo(value) ==
    LET m == ColPrefMatch(value)
    IN  [name   |-> ReplaceAll(TrimLeft(TrimRight(m[1], BQ), BQ), BQ \o BQ, BQ),
         prefix |-> IF Len(m[2]) > 0 THEN Atoi(m[2]) ELSE 0,
         colddl |-> value]

\* The result is a Go map: one entry per distinct name, the last element
\* with a given name wins.  An element without a quote character makes
\* matches[0] an index out of range.
parseIndexColumns(cols) ==
    LET el == Split(cols, ",")
    IN  IF \E i \in 1..Len(el) : ColPrefMatch(el[i]) = <<>>
        THEN [panic |-> TRUE, val |-> <<>>]
        ELSE LET names == {KeyColInfo(el[i]).name : i \in 1..Len(el)}
                 last(n) == Max({i \in 1..Len(el) : KeyColInfo(el[i]).name = n})
             IN  [panic |-> FALSE,
                  val   |-> [n \in names |-> KeyColInfo(el[last(n)])]]

----------------------------------------------------------------------------
(* GetKeys                                                                  *)

\* (?m)^  PRIMARY KEY \((.*)\),*$
PrimaryKeyAt(s, i) ==
    LET p == i + 14
        r == KeyTailClose(s, p)
    IN  IF HasAt(s, i, "  PRIMARY KEY (") /\ r # 0
        THEN [end |-> LineEnd(s, p),
              sub |-> <<SubSeq(s, i, LineEnd(s, p)), SubSeq(s, p + 1, r - 1)>>]
        ELSE NoMatch

Modifiers == {"FULLTEXT", "SPATIAL", "UNIQUE"}

\* (FULLTEXT|SPATIAL|UNIQUE)* from position i: <<position after the last
\* repetition, text of the last repetition>>
RECURSIVE ModifierRun(_, _, _)
ModifierRun(s, i, lastmod) ==
    LET M == {w \in Modifiers : HasAt(s, i, w)}
    IN  IF M = {} THEN <<i, lastmod>>
        ELSE LET w == CHOOSE w \in M : TRUE
             IN  ModifierRun(s, i + Len(w), w)

\* (?m)^  (FULLTEXT|SPATIAL|UNIQUE)*\s*KEY \x60([^\x60]*)\x60 \((.*)\),*$
SecondaryKeyAt(s, i) ==
    LET run == ModifierRun(s, i + 2, "")
        k   == FirstNotIn(s, run[1], WS)
        q   == FirstIn(s, k + 5, {BQ})
        p   == q + 2
        r   == KeyTailClose(s, p)
    IN  IF /\ HasAt(s, i, "  ")
           /\ HasAt(s, k, "KEY " \o BQ)
           /\ q # 0
           /\ HasAt(s, q, BQ \o " (")
           /\ r # 0
        THEN [end |-> LineEnd(s, p),
              sub |-> <<SubSeq(s, i, LineEnd(s, p)), run[2],
                        SubSeq(s, k + 5, q - 1), SubSeq(s, p + 1, r - 1)>>]
        ELSE NoMatch

PrimaryKeyMatches(s) == Scan([i \in LineStarts(s) |-> PrimaryKeyAt(s, i)], 1)

SecondaryKeyMatches(s) == Scan([i \in LineStarts(s) |-> SecondaryKeyAt(s, i)], 1)

\* the KeyInfo built from the first PRIMARY KEY match
PrimaryKeyInfo(m) ==
    [name    |-> "PRIMARY",
     keyType |-> "BTREE",
     primary |-> TRUE,
     unique  |-> TRUE,
     cols    |-> parseIndexColumns(m[2]).val,
     keyddl  |-> m[1]]

\* SecondaryKeyInfo with the keyType left at its default
SecondaryKeyInfoBtree(m) ==
    [name    |-> m[3],
     keyType |-> "BTREE",
     primary |-> FALSE,
     unique  |-> Contains(m[2], "UNIQUE"),
     cols    |-> parseIndexColumns(m[4]).val,
     keyddl  |-> m[1]]

\* the KeyInfo built from one secondary key match
SecondaryKeyInfo(m) ==
    [name    |-> m[3],
     keyType |-> IF Contains(m[2], "FULLTEXT") THEN "TEXT"
                 ELSE IF Contains(m[2], "SPATIAL") THEN "RTREE"
                 ELSE "BTREE",
     primary |-> FALSE,
     unique  |-> Contains(m[2], "UNIQUE"),
     cols    |-> parseIndexColumns(m[4]).val,
     keyddl  |-> m[1]]

\* a Go map filled from a sequence of KeyInfo: the last one of a name wins
KeyMap(kis) ==
    LET names == {kis[i].name : i \in 1..Len(kis)}
        last(n) == Max({i \in 1..Len(kis) : kis[i].name = n})
    IN  [n \in names |-> kis[last(n)]]

\* GetKeys: matches[0] is read before any test, so a text without a
\* PRIMARY KEY line is an index out of range
GetKeys(s) ==
    LET pm == PrimaryKeyMatches(s)
        sm == SecondaryKeyMatches(s)
    IN  IF Len(pm) = 0 THEN [panic |-> TRUE, val |-> <<>>]
        ELSE IF parseIndexColumns(pm[1][2]).panic
                \/ \E i \in 1..Len(sm) : parseIndexColumns(sm[i][4]).panic
        THEN [panic |-> TRUE, val |-> <<>>]
        ELSE [panic |-> FALSE,
              val   |-> KeyMap(<<PrimaryKeyInfo(pm[1])>>
                               \o [i \in 1..Len(sm) |-> SecondaryKeyInfo(sm[i])])]

----------------------------------------------------------------------------
(* Outcomes of a call: a returned value, a returned error, a run-time      *)
(* panic, or the process exit of os.Exit.                                   *)

Ok(v)       == [kind |-> "ok", val |-> v]
Error(msg)  == [kind |-> "error", val |-> msg]
Panic(msg)  == [kind |-> "panic", val |-> msg]
Exit(msg)   == [kind |-> "exit", val |-> msg]
NotCalled   == [kind |-> "none", val |-> ""]

IndexOutOfRange == "index out of range"
NilMapWrite     == "assignment to entry in nil map"

----------------------------------------------------------------------------
(* Sortindexes and Findbestindex                                            *)

\* sortFunc reads x.nullable and y.nullable.  KeyInfo declares no such
\* field and neither GetKeys nor any other code stores one, so the read
\* yields the zero value of a bool for every key.
KeyNullable(k) == FALSE

\* sortFunc without the two tests on the name PRIMARY
sortFuncNoPrimary(x, y) ==
    IF x.unique /\ ~y.unique THEN -1
    ELSE IF y.unique /\ ~x.unique THEN 1
    ELSE IF ~KeyNullable(x) /\ y.unique THEN -1
    ELSE IF ~KeyNullable(y) /\ KeyNullable(x) THEN 1
    ELSE IF Cardinality(DOMAIN x.cols) > Cardinality(DOMAIN y.cols) THEN -1
    ELSE IF Cardinality(DOMAIN y.cols) > Cardinality(DOMAIN x.cols) THEN 1
    ELSE 0

\* sortFunc without the two tests on the unique flag
sortFuncNoUnique(x, y) ==
    IF x.name = "PRIMARY" THEN -1
    ELSE IF y.name = "PRIMARY" THEN 1
    ELSE IF ~KeyNullable(x) /\ y.unique THEN -1
    ELSE IF ~KeyNullable(y) /\ KeyNullable(x) THEN 1
    ELSE IF Cardinality(DOMAIN x.cols) > Cardinality(DOMAIN y.cols) THEN -1
    ELSE IF Cardinality(DOMAIN y.cols) > Cardinality(DOMAIN x.cols) THEN 1
    ELSE 0

sortFunc(x, y) ==
    IF x.name = "PRIMARY" THEN -1
    ELSE IF y.name = "PRIMARY" THEN 1
    ELSE IF x.unique /\ ~y.unique THEN -1
    ELSE IF y.unique /\ ~x.unique THEN 1
    ELSE IF ~KeyNullable(x) /\ y.unique THEN -1
    ELSE IF ~KeyNullable(y) /\ KeyNullable(x) THEN 1
    ELSE IF Cardinality(DOMAIN x.cols) > Cardinality(DOMAIN y.cols) THEN -1
    ELSE IF Cardinality(DOMAIN y.cols) > Cardinality(DOMAIN x.cols) THEN 1
    ELSE 0

\* slices.SortedStableFunc on fewer than 20 elements is an insertion sort:
\* each element in turn moves left while it compares below its neighbour
RECURSIVE InsertLeft(_, _)
InsertLeft(s, x) ==
    IF Len(s) > 0 /\ sortFunc(x, s[Len(s)]) < 0
    THEN InsertLeft(SubSeq(s, 1, Len(s) - 1), x) \o <<s[Len(s)]>>
    ELSE s \o <<x>>

RECURSIVE SortedStableFunc(_)
SortedStableFunc(s) ==
    IF Len(s) = 0 THEN <<>>
    ELSE InsertLeft(SortedStableFunc(SubSeq(s, 1, Len(s) - 1)), s[Len(s)])

\* the orders in which "range tbl.Keys" may enumerate the key mapping
KeyOrders(t) ==
    LET K == DOMAIN t.keys
    IN  {o \in [1..Cardinality(K) -> K] :
            \A i, j \in 1..Cardinality(K) : i # j => o[i] # o[j]}

\* the loop without the test on keyType
BtreeValuesUnfiltered(t, order) == [i \in 1..Len(order) |-> t.keys[order[i]]]

\* the loop that keeps the BTREE keys, in enumeration order
BtreeValues(t, order) ==
    SelectSeq([i \in 1..Len(order) |-> t.keys[order[i]]],
              LAMBDA v : v.keyType = "BTREE")

Sortindexes(t, order) == SortedStableFunc(BtreeValues(t, order))

\* Findbestindex falling back to the best key when the name is missing
FindbestindexFallback(t, idx, order) ==
    LET s == Sortindexes(t, order)
    IN  IF Len(idx) > 0 /\ idx \in DOMAIN t.keys THEN Ok(idx)
        ELSE IF Len(s) = 0 THEN Panic(IndexOutOfRange) ELSE Ok(s[1].name)

Findbestindex(t, idx, order) ==
    IF Len(idx) > 0
    THEN IF idx \in DOMAIN t.keys
         THEN Ok(idx)
         ELSE Exit("Index '" \o idx \o "' does not exist in table")
    ELSE LET s == Sortindexes(t, order)
         IN  IF Len(s) = 0 THEN Panic(IndexOutOfRange) ELSE Ok(s[1].name)

----------------------------------------------------------------------------
(* Parse and the extractors it calls                                        *)

LowerLetters == "abcdefghijklmnopqrstuvwxyz"
UpperLetters == "ABCDEFGHIJKLMNOPQRSTUVWXYZ"

UpperChar(c) ==
    IF \E k \in 1..26 : Char(LowerLetters, k) = c
    THEN Char(UpperLetters, CHOOSE k \in 1..26 : Char(LowerLetters, k) = c)
    ELSE c

\* the text p occurs in s at position i, letter case ignored
HasAtFold(s, i, p) ==
    /\ i >= 1
    /\ i + Len(p) - 1 <= Len(s)
    /\ \A k \in 1..Len(p) : UpperChar(Char(s, i + k - 1)) = UpperChar(Char(p, k))

ContainsFold(s, p) == \E i \in 1..(Len(s) - Len(p) + 1) : HasAtFold(s, i, p)

\* "(?i)CREATE (?:TEMPORARY )?TABLE \x60" matches somewhere in the text
QuotedHeader(s) ==
    \/ ContainsFold(s, "CREATE TABLE " \o BQ)
    \/ ContainsFold(s, "CREATE TEMPORARY TABLE " \o BQ)

\* The pattern that extracts the name is written between quote characters
\* inside a double-quoted Go string, so both of them belong to the pattern:
\*   \x60CREATE (?:TEMPORARY )?TABLE \x60([^\x60]*)\x60\x60
TableNameAt(s, i) ==
    LET h == IF HasAt(s, i, BQ \o "CREATE TEMPORARY TABLE " \o BQ)
             THEN Len(BQ \o "CREATE TEMPORARY TABLE " \o BQ)
             ELSE IF HasAt(s, i, BQ \o "CREATE TABLE " \o BQ)
             THEN Len(BQ \o "CREATE TABLE " \o BQ)
             ELSE 0
        q == FirstIn(s, i + h, {BQ})
    IN  IF h # 0 /\ q # 0 /\ Char(s, q + 1) = BQ
        THEN [end |-> q + 1,
              sub |-> <<SubSeq(s, i, q + 1), SubSeq(s, i + h, q - 1)>>]
        ELSE NoMatch

TableNameMatches(s) == Scan([i \in 1..Len(s) |-> TableNameAt(s, i)], 1)

\* (?m)^\) ENGINE\=([^ ]*) .*$
EngineAt(s, i) ==
    LET sp == FirstIn(s, i + 9, {" "})
    IN  IF HasAt(s, i, ") ENGINE=") /\ sp # 0
        THEN [end |-> LineEnd(s, sp + 1),
              sub |-> <<SubSeq(s, i, LineEnd(s, sp + 1)), SubSeq(s, i + 9, sp - 1)>>]
        ELSE NoMatch

Getengine(s) ==
    LET matches == Scan([i \in LineStarts(s) |-> EngineAt(s, i)], 1)
    IN  IF Len(matches) = 0 THEN Panic(IndexOutOfRange)
        ELSE IF Len(matches[1][2]) < 1
        THEN Error("Could not determine the table Engine")
        ELSE Ok(matches[1][2])

\* (?m)DEFAULT CHARSET=([^\s]*) followed by one space
CharsetAt(s, i) ==
    LET w == FirstIn(s, i + 16, WS)
    IN  IF HasAt(s, i, "DEFAULT CHARSET=") /\ w # 0 /\ Char(s, w) = " "
        THEN [end |-> w,
              sub |-> <<SubSeq(s, i, w), SubSeq(s, i + 16, w - 1)>>]
        ELSE NoMatch

Getcharset(s) ==
    LET matches == Scan([i \in 1..Len(s) |-> CharsetAt(s, i)], 1)
    IN  IF Len(matches) = 0 THEN Panic(IndexOutOfRange)
        ELSE IF Len(matches[1][2]) < 1
        THEN Error("Could not determine the table default charset")
        ELSE Ok(matches[1][2])

\* (?m)^\s\s\x60([^\x60]*)\x60 ([^\s]*) (.*)$
ColumnAt(s, i) ==
    LET k == FirstIn(s, i + 3, {BQ})
        t == FirstIn(s, k + 2, WS)
        e == LineEnd(s, t + 1)
    IN  IF /\ Char(s, i) \in WS
           /\ Char(s, i + 1) \in WS
           /\ Char(s, i + 2) = BQ
           /\ k # 0
           /\ Char(s, k + 1) = " "
           /\ t # 0
           /\ Char(s, t) = " "
        THEN [end |-> e,
              sub |-> <<SubSeq(s, i, e), SubSeq(s, i + 3, k - 1),
                        SubSeq(s, k + 2, t - 1), SubSeq(s, t + 1, e)>>]
        ELSE NoMatch

ColumnMatches(s) == Scan([i \in LineStarts(s) |-> ColumnAt(s, i)], 1)

\* the body of the column loop: the ColInfo of the i-th match (i from 1)
ColInfo(col, i) ==
    [name       |-> col[2],
     pos        |-> i,
     dataType   |-> col[3],
     definition |-> col[1],
     nullable   |-> ~Contains(col[1], "NOT NULL"),
     generated  |-> Contains(col[1], "GENERATED ALWAYS AS"),
     numeric    |-> \/ Contains(col[3], "int")
                    \/ Contains(col[3], "float")
                    \/ Contains(col[3], "double")
                    \/ Contains(col[3], "decimal")
                    \/ Contains(col[3], "year"),
     autoinc    |-> Contains(col[4], "AUTO_INCREMENT")]

\* a column mapping filled in match order: the last column of a name wins
ColMap(matches) ==
    LET names == {matches[i][2] : i \in 1..Len(matches)}
        last(n) == Max({i \in 1..Len(matches) : matches[i][2] = n})
    IN  [n \in names |-> ColInfo(matches[last(n)], last(n))]

\* the value a function that returned an error leaves in the field
ValueOr(outcome, zero) == IF outcome.kind = "ok" THEN outcome.val ELSE zero

\* Parse.  The error results of Getengine and Getcharset are not looked
\* at.  new(TableInfo) leaves the column mapping nil, so storing the first
\* column is a write to a nil map.
Parse(s) ==
    IF Len(s) < 1 THEN Error("Empty table definition provided")
    ELSE IF ~QuotedHeader(s)
    THEN Error("tableparser doesn't handle CREATE TABLE without quoting.")
    ELSE IF Len(TableNameMatches(s)) = 0 THEN Panic(IndexOutOfRange)
    ELSE IF Len(TableNameMatches(s)[1][2]) < 1
    THEN Error("Couldn't extract the table name from: " \o s)
    ELSE IF Getengine(s).kind = "panic" THEN Panic(IndexOutOfRange)
    ELSE IF Getcharset(s).kind = "panic" THEN Panic(IndexOutOfRange)
    ELSE IF Len(ColumnMatches(s)) > 0 THEN Panic(NilMapWrite)
    ELSE IF GetKeys(s).panic THEN Panic(IndexOutOfRange)
    ELSE Ok([name    |-> TableNameMatches(s)[1][2],
             cols    |-> <<>>,
             keys    |-> GetKeys(s).val,
             engine  |-> ValueOr(Getengine(s), ""),
             charset |-> ValueOr(Getcharset(s), ""),
             ddl     |-> ""])

----------------------------------------------------------------------------
(* Inputs                                                                   *)

MaxKeys == 2     \* secondary keys of a table handed to the index selector
MaxCols == 2     \* column lines of a definition handed to Parse

KeyNamePool == <<"k1", "k2", "k3", "k4">>
SecondaryNames == {KeyNamePool[i] : i \in 1..MaxKeys}
KeyColLists == {"'c1'", "'c2'", "'c1','c2'", "'c1','c3'"}
KeyModifiers == {"", "UNIQUE ", "FULLTEXT ", "SPATIAL "}

\* the columns of those tables: c1 and c3 are NOT NULL, c2 is nullable
IndexCols ==
    ColMap(ColumnMatches("  'c1' int NOT NULL,\n  'c2' char(40) DEFAULT NULL,\n  'c3' int NOT NULL,"))

SecondaryLine(mod, n, cl) == "  " \o mod \o "KEY '" \o n \o "' (" \o cl \o "),"
PrimaryLine(cl) == "  PRIMARY KEY (" \o cl \o "),"

SecondaryOptions == {<<"none", "">>} \cup (KeyModifiers \X KeyColLists)
PrimaryOptions == {"none", "'c1'", "'c1','c2'"}

\* the key mapping built, as GetKeys builds it, from the chosen key lines
KeysOf(p, f) ==
    LET pk == IF p = "none" THEN <<>>
              ELSE <<PrimaryKeyInfo(PrimaryKeyAt(PrimaryLine(p), 1).sub)>>
        sk(i) == IF f[i][1] = "none" THEN <<>>
                 ELSE <<SecondaryKeyInfo(
                          SecondaryKeyAt(
                            SecondaryLine(f[i][1], KeyNamePool[i], f[i][2]), 1).sub)>>
        RECURSIVE All(_)
        All(i) == IF i = 0 THEN pk ELSE All(i - 1) \o sk(i)
    IN  KeyMap(All(MaxKeys))

TableOf(keys) ==
    [name |-> "t", cols |-> IndexCols, keys |-> keys,
     engine |-> "InnoDB", charset |-> "utf8mb4", ddl |-> ""]

Tables ==
    {TableOf(KeysOf(p, f)) : p \in PrimaryOptions,
                             f \in [1..MaxKeys -> SecondaryOptions]}

\* the zero value of TableInfo: no table is held
ZeroTable ==
    [name |-> "", cols |-> <<>>, keys |-> <<>>,
     engine |-> "", charset |-> "", ddl |-> ""]

IndexArgs == {"", "PRIMARY", "missing"} \cup SecondaryNames

\* definitions handed to Parse: a header, column lines, key lines, a trailer
Headers ==
    {"CREATE TABLE 't' (",
     "CREATE TEMPORARY TABLE 't' (",
     "create table 't' (",
     "CREATE TABLE t (",
     "CREATE VIEW 'v' AS select 1",
     "'CREATE TABLE 't'' (",
     "'CREATE TABLE ''' ("}

ColumnLinePool ==
    <<"  'id' int NOT NULL",
      "  'a' char(40) DEFAULT NULL",
      "  'b' decimal(10,2) GENERATED ALWAYS AS (('id' * 2)) VIRTUAL",
      "  'c' bigint NOT NULL AUTO_INCREMENT">>

ColumnNamePool == <<"id", "a", "b", "c">>

KeyLineChoices ==
    {<<>>,
     <<"  PRIMARY KEY ('id')">>,
     <<"  PRIMARY KEY ('id')", "  UNIQUE KEY 'u' ('a'(10),'id')">>,
     <<"  KEY 'k' ('a')">>,
     <<"  PRIMARY KEY ('id')",
       "  CONSTRAINT 'fk1' FOREIGN KEY ('a') REFERENCES 'p' ('id') ON DELETE CASCADE">>}

Trailers ==
    {") ENGINE=InnoDB DEFAULT CHARSET=utf8mb4",
     ") ENGINE=InnoDB AUTO_INCREMENT=7 DEFAULT CHARSET=utf8mb4 COLLATE=utf8mb4_bin",
     ") DEFAULT CHARSET=utf8mb4 COLLATE=utf8mb4_bin",
     ") ENGINE=InnoDB COMMENT=x",
     ") ENGINE=InnoDB",
     ") ENGINE= DEFAULT CHARSET=utf8mb4 ROW_FORMAT=DYNAMIC",
     ") ENGINE=InnoDB DEFAULT CHARSET= COLLATE=utf8mb4_bin"}

RECURSIVE Join(_, _)
Join(lines, sep) ==
    IF Len(lines) = 0 THEN ""
    ELSE IF Len(lines) = 1 THEN lines[1]
    ELSE lines[1] \o sep \o Join(Tail(lines), sep)

\* the column lines whose pool index is in S, in pool order
ColumnLines(S) ==
    LET picked == SelectSeq([i \in 1..MaxCols |-> i], LAMBDA i : i \in S)
    IN  [j \in 1..Len(picked) |-> ColumnLinePool[picked[j]]]

MkDDL(h, S, k, t) ==
    LET body == ColumnLines(S) \o k
    IN  IF Len(body) = 0 THEN h \o NL \o t
        ELSE h \o NL \o Join(body, "," \o NL) \o NL \o t

DDLs ==
    {""} \cup {MkDDL(h, S, k, t) : h \in Headers, S \in SUBSET (1..MaxCols),
                                   k \in KeyLineChoices, t \in Trailers}

----------------------------------------------------------------------------
(* The calls                                                                *)

\* the version and quoter packages are not in use
NoVersion == ver = "" /\ ver2 = "" /\ vres = NotCalled

NoQuoter == qparts = <<>> /\ qdef = "" /\ qtext = "" /\ qres = NotCalled

\* the Dsn struct.  Parse stores A in D.Charset, which the struct of lines
\* 74-87 does not declare and init does not set; Dbh is 0 for nil, else
\* the number of the handle
DsnZero ==
    [Charset |-> "", SkipBinlog |-> FALSE, Database |-> "", Host |-> "",
     Password |-> "", Port |-> 0, Setvars |-> "", Socket |-> "",
     Ssl |-> FALSE, Table |-> "", User |-> "", Extra |-> "", Dbh |-> 0]

\* the dsn package is not in use
NoDsn ==
    /\ dpkg = ""
    /\ dtext = ""
    /\ dsn = DsnZero
    /\ dres = NotCalled
    /\ handles = <<>>
    /\ trace = <<>>

TableHeld == op \in {"idle", "Parse"} /\ tbl.name # ""

DoParse ==
    /\ op = "idle"
    /\ tbl.name = ""
    /\ parsed' = Parse(ddl)
    /\ tbl' = IF parsed'.kind = "ok" THEN parsed'.val ELSE tbl
    /\ op' = "Parse"
    /\ UNCHANGED <<ddl, arg, enum, idxs, best, kres, versionVars,
                   quoterVars, dsnVars>>

DoSortindexes ==
    /\ TableHeld
    /\ \E order \in KeyOrders(tbl) :
          /\ enum' = order
          /\ idxs' = Sortindexes(tbl, order)
    /\ op' = "Sortindexes"
    /\ UNCHANGED <<ddl, parsed, tbl, arg, best, kres, versionVars,
                   quoterVars, dsnVars>>

DoFindbestindex ==
    /\ TableHeld
    /\ \E idx \in IndexArgs :
          /\ arg' = idx
          /\ \E order \in KeyOrders(tbl) :
                /\ enum' = IF idx = "" THEN order ELSE <<>>
                /\ best' = Findbestindex(tbl, idx, order)
    /\ op' = "Findbestindex"
    /\ UNCHANGED <<ddl, parsed, tbl, idxs, kres, versionVars,
                   quoterVars, dsnVars>>

\* the index selector on the tables a caller may hold
Init ==
    /\ op = "idle"
    /\ ddl = ""
    /\ parsed = NotCalled
    /\ tbl \in Tables
    /\ arg = ""
    /\ enum = <<>>
    /\ idxs = <<>>
    /\ best = NotCalled
    /\ kres = NotCalled
    /\ NoVersion
    /\ NoQuoter
    /\ NoDsn

Next == DoSortindexes \/ DoFindbestindex

Spec == Init /\ [][Next]_vars

\* Parse on a definition, then the index selector on the table it returned
ParseInit ==
    /\ op = "idle"
    /\ ddl \in DDLs
    /\ parsed = NotCalled
    /\ tbl = ZeroTable
    /\ arg = ""
    /\ enum = <<>>
    /\ idxs = <<>>
    /\ best = NotCalled
    /\ kres = NotCalled
    /\ NoVersion
    /\ NoQuoter
    /\ NoDsn

ParseNext == DoParse \/ DoSortindexes \/ DoFindbestindex

ParseSpec == ParseInit /\ [][ParseNext]_vars

----------------------------------------------------------------------------
(* Properties                                                               *)

BtreeNames == {n \in DOMAIN tbl.keys : tbl.keys[n].keyType = "BTREE"}

\* a member column of the key is a nullable column of the table
HasNullableColumn(k) ==
    \E c \in DOMAIN k.cols : c \in DOMAIN tbl.cols /\ tbl.cols[c].nullable

WellFormedHeaders == {"CREATE TABLE 't' (", "CREATE TEMPORARY TABLE 't' ("}

UnquotedHeaders == {"CREATE TABLE t (", "CREATE VIEW 'v' AS select 1"}

WellFormedTrailers ==
    {") ENGINE=InnoDB DEFAULT CHARSET=utf8mb4",
     ") ENGINE=InnoDB AUTO_INCREMENT=7 DEFAULT CHARSET=utf8mb4 COLLATE=utf8mb4_bin"}

MalformedDefinition(outcome) ==
    /\ outcome.kind = "error"
    /\ \/ outcome.val = "Empty table definition provided"
       \/ outcome.val = "tableparser doesn't handle CREATE TABLE without quoting."
       \/ HasAt(outcome.val, 1, "Couldn't extract the table name")

ScenarioDDL ==
    "CREATE TABLE 't' (\n  'id' int NOT NULL,\n  PRIMARY KEY ('id')\n) ENGINE=InnoDB DEFAULT CHARSET=utf8mb4"

\* C1: Parse of the scenario definition (one column id, PRIMARY KEY (id),
\* nothing after the charset) returns the table t with the single column
\* id, not nullable and numeric, and the single key PRIMARY, primary and
\* unique over one column; Findbestindex("") on it returns PRIMARY.
C1_ScenarioParses ==
    ddl = ScenarioDDL =>
        /\ op = "Parse" =>
              /\ parsed.kind = "ok"
              /\ parsed.val.name = "t"
              /\ DOMAIN parsed.val.cols = {"id"}
              /\ ~parsed.val.cols["id"].nullable
              /\ parsed.val.cols["id"].numeric
              /\ DOMAIN parsed.val.keys = {"PRIMARY"}
              /\ parsed.val.keys["PRIMARY"].primary
              /\ parsed.val.keys["PRIMARY"].unique
              /\ Cardinality(DOMAIN parsed.val.keys["PRIMARY"].cols) = 1
        /\ (op = "Findbestindex" /\ arg = "") => best = Ok("PRIMARY")

\* C2: for a well-formed definition with N column lines Parse returns a
\* table with exactly those N columns, the column of the i-th line at
\* position i.
C2_ColumnsInSourceOrder ==
    op = "Parse" =>
        \A h \in WellFormedHeaders, S \in SUBSET (1..MaxCols),
           k \in KeyLineChoices, t \in WellFormedTrailers :
            ddl = MkDDL(h, S, k, t) =>
                /\ parsed.kind = "ok"
                /\ DOMAIN parsed.val.cols = {ColumnNamePool[i] : i \in S}
                /\ \A i \in S :
                      parsed.val.cols[ColumnNamePool[i]].pos
                          = Cardinality({j \in S : j <= i})

\* C3: when the table has a key named PRIMARY, the sequence returned by
\* Sortindexes starts with that key, whatever the enumeration order.
C3_PrimarySortsFirst ==
    (op = "Sortindexes" /\ "PRIMARY" \in DOMAIN tbl.keys) =>
        /\ Len(idxs) >= 1
        /\ idxs[1] = tbl.keys["PRIMARY"]

C3_Witness ==
    /\ op = "Sortindexes"
    /\ Len(enum) = 3
    /\ enum[3] = "PRIMARY"
    /\ tbl.keys[enum[1]].unique
    /\ tbl.keys[enum[2]].keyType = "BTREE"
    /\ idxs[1].name = "PRIMARY"

\* C4: the sequence returned by Sortindexes holds every BTREE key of the
\* table exactly once and no RTREE or TEXT key.
C4_ExactlyTheBtreeKeys ==
    op = "Sortindexes" =>
        /\ Len(idxs) = Cardinality(BtreeNames)
        /\ {idxs[i] : i \in 1..Len(idxs)} = {tbl.keys[n] : n \in BtreeNames}

C4_Witness ==
    /\ op = "Sortindexes"
    /\ \E n \in DOMAIN tbl.keys : tbl.keys[n].keyType = "RTREE"
    /\ \E n \in DOMAIN tbl.keys : tbl.keys[n].keyType = "TEXT"
    /\ Len(idxs) = 1

\* C5: in the sequence returned by Sortindexes no non-unique key comes
\* before a unique key (PRIMARY aside); and Findbestindex("") on a table
\* whose only BTREE keys are a non-unique key of one column and a unique
\* key of two columns returns the unique key.
C5_UniqueBeforeNonUnique ==
    /\ op = "Sortindexes" =>
          \A i, j \in 1..Len(idxs) :
              (/\ i < j
               /\ idxs[i].name # "PRIMARY"
               /\ idxs[j].name # "PRIMARY") => ~(~idxs[i].unique /\ idxs[j].unique)
    /\ (op = "Findbestindex" /\ arg = "") =>
          \A k, u \in BtreeNames :
              (/\ BtreeNames = {k, u}
               /\ ~tbl.keys[k].unique
               /\ Cardinality(DOMAIN tbl.keys[k].cols) = 1
               /\ tbl.keys[u].unique
               /\ Cardinality(DOMAIN tbl.keys[u].cols) = 2) => best = Ok(u)

C5_Witness ==
    /\ op = "Findbestindex"
    /\ arg = ""
    /\ Len(enum) = 2
    /\ BtreeNames = {enum[1], enum[2]}
    /\ tbl.keys[enum[1]].unique
    /\ Cardinality(DOMAIN tbl.keys[enum[1]].cols) = 2
    /\ ~tbl.keys[enum[2]].unique
    /\ Cardinality(DOMAIN tbl.keys[enum[2]].cols) = 1
    /\ best = Ok(enum[1])

\* C6: in the sequence returned by Sortindexes, of two keys other than
\* PRIMARY with the same unique flag, one without a nullable member column
\* comes before one with a nullable member column.
C6_NotNullableBeforeNullable ==
    op = "Sortindexes" =>
        \A i, j \in 1..Len(idxs) :
            (/\ i < j
             /\ idxs[i].name # "PRIMARY"
             /\ idxs[j].name # "PRIMARY"
             /\ idxs[i].unique = idxs[j].unique)
                => ~(HasNullableColumn(idxs[i]) /\ ~HasNullableColumn(idxs[j]))

\* C7: in the sequence returned by Sortindexes, of two keys other than
\* PRIMARY that tie on the unique flag and on having a nullable member
\* column, the one with more member columns comes first.
C7_MoreColumnsFirst ==
    op = "Sortindexes" =>
        \A i, j \in 1..Len(idxs) :
            (/\ i < j
             /\ idxs[i].name # "PRIMARY"
             /\ idxs[j].name # "PRIMARY"
             /\ idxs[i].unique = idxs[j].unique
             /\ HasNullableColumn(idxs[i]) = HasNullableColumn(idxs[j]))
                => Cardinality(DOMAIN idxs[i].cols)
                       >= Cardinality(DOMAIN idxs[j].cols)

\* C8: Findbestindex with a non-empty preferred name returns that name when
\* it is a key of the table, of whatever kind, and otherwise ends in the
\* index-not-found outcome that names the missing key; it never returns
\* another key.
C8_PreferredNameOrFailure ==
    (op = "Findbestindex" /\ arg # "") =>
        IF arg \in DOMAIN tbl.keys
        THEN best = Ok(arg)
        ELSE /\ best.kind = "exit"
             /\ Contains(best.val, "'" \o arg \o "'")
             /\ Contains(best.val, "does not exist")

C8_Witness ==
    /\ op = "Findbestindex"
    /\ arg = "missing"
    /\ BtreeNames # {}
    /\ best.kind = "exit"

\* C9: Findbestindex with an empty preferred name returns the first element
\* of Sortindexes when the table has a BTREE key, and returns the
\* no-usable-index error as a value when it has none.
C9_EmptyPreference ==
    (op = "Findbestindex" /\ arg = "") =>
        IF BtreeNames # {}
        THEN best = Ok(Sortindexes(tbl, enum)[1].name)
        ELSE best.kind = "error"

\* C10: Parse returns the malformed-definition error for a text without a
\* CREATE [TEMPORARY] TABLE header or with an unquoted table name, the
\* empty text included; with a quoted header it returns a table named by
\* the quoted identifier.
C10_HeaderDecides ==
    op = "Parse" =>
        /\ ddl = "" => MalformedDefinition(parsed)
        /\ \A h \in UnquotedHeaders, S \in SUBSET (1..MaxCols),
              k \in KeyLineChoices, t \in Trailers :
                ddl = MkDDL(h, S, k, t) => MalformedDefinition(parsed)
        /\ \A h \in WellFormedHeaders, S \in SUBSET (1..MaxCols),
              k \in KeyLineChoices, t \in WellFormedTrailers :
                ddl = MkDDL(h, S, k, t) =>
                    /\ parsed.kind = "ok"
                    /\ parsed.val.name = "t"

----------------------------------------------------------------------------
(* GetFks                                                                   *)

\* (?m)^  CONSTRAINT (.*) FOREIGN KEY \((.*)\) REFERENCES (.*) \((.*)\).*$
\* tried at line start i.  Each (.*) is greedy and the matcher backtracks
\* within the line, so the literals are placed as far right as the rest of
\* the pattern allows, the earlier group first.
FkAt(s, i) ==
    LET e == LineEnd(s, i)
        D(c) == {d \in (c + 2)..e : Char(s, d) = ")"}
        C(b) == {c \in (b + 13)..e : HasAt(s, c, " (") /\ D(c) # {}}
        B(a) == {b \in (a + 14)..e : HasAt(s, b, ") REFERENCES ") /\ C(b) # {}}
        A == {a \in (i + 13)..e : HasAt(s, a, " FOREIGN KEY (") /\ B(a) # {}}
    IN  IF HasAt(s, i, "  CONSTRAINT ") /\ A # {}
        THEN LET a == Max(A)
                 b == Max(B(a))
                 c == Max(C(b))
                 d == Max(D(c))
             IN  [end |-> e,
                  sub |-> <<SubSeq(s, i, e), SubSeq(s, i + 13, a - 1),
                            SubSeq(s, a + 14, b - 1), SubSeq(s, b + 13, c - 1),
                            SubSeq(s, c + 2, d - 1)>>]
        ELSE NoMatch

FkMatches(s) == Scan([i \in LineStarts(s) |-> FkAt(s, i)], 1)

FkInfo(fkddl) ==
    [name |-> fkddl[2],
     colnames |-> fkddl[3],
     cols |-> Split(fkddl[3], ","),
     parenttb |-> fkddl[4],
     parentcolnames |-> fkddl[5],
     parentcols |-> Split(fkddl[5], ","),
     fkddl |-> fkddl[1]]

\* fkmap[fki.name] = fki for each match in turn: the last match of a name wins
GetFks(s) ==
    LET matches == FkMatches(s)
        names == {matches[j][2] : j \in 1..Len(matches)}
        last(n) == Max({j \in 1..Len(matches) : matches[j][2] = n})
    IN  [n \in names |-> FkInfo(matches[last(n)])]

\* the foreign keys a TableInfo holds: the struct of lines 205-212 has no
\* field for them and Parse never calls GetFks
ForeignKeysOf(t) ==
    IF "fks" \in DOMAIN t THEN t.fks ELSE [n \in {} |-> n]

----------------------------------------------------------------------------
(* Properties of Parse: engine, charset, foreign keys                       *)

\* headers with a quoted, non-empty table name: the well-formed ones and
\* the one form the name pattern of Parse accepts
NamedHeaders == WellFormedHeaders \cup {"'CREATE TABLE 't'' ("}

NamedHeader(s) == \E h \in NamedHeaders : HasAt(s, 1, h)

EngineNamed(s) ==
    \E i \in 1..Len(s) :
        HasAt(s, i, NL \o ") ENGINE=") /\ Char(s, i + 10) \notin WS \cup {""}

CharsetNamed(s) ==
    \E i \in 1..Len(s) :
        HasAt(s, i, "DEFAULT CHARSET=") /\ Char(s, i + 16) \notin WS \cup {""}

\* C11: Parse on a definition with a quoted header but no engine in its
\* trailer returns the engine-not-found error, and on one with no default
\* charset the charset-not-found error; no table is returned in either case.
C11_AllOrNothing ==
    (op = "Parse" /\ NamedHeader(ddl)) =>
        /\ ~EngineNamed(ddl) =>
              parsed = Error("Could not determine the table Engine")
        /\ (EngineNamed(ddl) /\ ~CharsetNamed(ddl)) =>
              parsed = Error("Could not determine the table default charset")

\* C12: the table returned by Parse holds one foreign key for each
\* CONSTRAINT ... FOREIGN KEY (...) REFERENCES ... (...) line of the
\* definition, with its column list, referenced table and referenced
\* column list, and none when the definition has no such line.
C12_ForeignKeysCollected ==
    (op = "Parse" /\ parsed.kind = "ok") =>
        ForeignKeysOf(parsed.val) = GetFks(ddl)

----------------------------------------------------------------------------
(* Package version (src/go/version/version.go)                              *)

\* strings.Index(v, sub): 0-based position of the first occurrence, -1 if none
Index(v, sub) ==
    LET S == {i \in 1..Len(v) : HasAt(v, i, sub)}
    IN  IF S = {} THEN -1 ELSE Min(S) - 1

splitVersion(v) ==
    LET idxRel == IF Index(v, "-") = -1 THEN Len(v) ELSE Index(v, "-")
        rel == IF Index(v, "-") = -1 THEN ""
               ELSE SubSeq(v, idxRel + 2, Len(v))
    IN  Split(SubSeq(v, 1, idxRel), ".") \o <<rel>>

\* the "." of a pattern: any character but a newline
AnyChar(c) == c # "" /\ c # NL

\* [0-9]-.*$ at position p of v: a "-" and no newline up to the end of v
ReleaseTail(v, p) ==
    Char(v, p) = "-" /\ \A j \in (p + 1)..Len(v) : Char(v, j) # NL

\* "^([58])\x2e([0-9])\x2e([0-9][0-9]$|[0-9]$|[0-9][0-9]-.*$|[0-9]-.*$)"
\* the pattern is an interpreted string literal, so each \x2e reaches the
\* regexp compiler as a bare "." and matches any character
Validate(v) ==
    /\ Char(v, 1) \in {"5", "8"}
    /\ AnyChar(Char(v, 2))
    /\ Char(v, 3) \in Digits
    /\ AnyChar(Char(v, 4))
    /\ Char(v, 5) \in Digits
    /\ \/ Char(v, 6) \in Digits /\ Len(v) = 6
       \/ Len(v) = 5
       \/ Char(v, 6) \in Digits /\ ReleaseTail(v, 7)
       \/ ReleaseTail(v, 6)

InvalidVersion == Error("invalid version format")

\* vParts[i] of the source, i counted from 0
PartAt(vParts, i) == vParts[i + 1]

MajorUnchecked(v) == Ok(PartAt(splitVersion(v), 0))

Major(v) ==
    IF ~Validate(v) THEN InvalidVersion
    ELSE Ok(PartAt(splitVersion(v), 0))

Minor(v) ==
    IF ~Validate(v) THEN InvalidVersion
    ELSE LET vParts == splitVersion(v)
         IN  IF Len(vParts) < 3 THEN Panic(IndexOutOfRange)
             ELSE Ok(PartAt(vParts, 1) \o "." \o PartAt(vParts, 2))

Release(v) ==
    IF ~Validate(v) THEN InvalidVersion
    ELSE LET vParts == splitVersion(v)
         IN  IF Len(vParts) < 4 THEN Panic(IndexOutOfRange)
             ELSE Ok("-" \o PartAt(vParts, 3))

\* strconv.Atoi with its error dropped: 0 for a text that is not an
\* optionally signed run of decimal digits
StrconvAtoi(s) ==
    LET signed == Char(s, 1) \in {"+", "-"}
        body == IF signed THEN SubSeq(s, 2, Len(s)) ELSE s
        value == Atoi(body)
    IN  IF Len(body) = 0 \/ \E j \in 1..Len(body) : Char(body, j) \notin Digits
        THEN 0
        ELSE IF Char(s, 1) = "-" THEN 0 - value ELSE value

RECURSIVE Itoa(_)
Itoa(n) ==
    IF n < 0 THEN "-" \o Itoa(0 - n)
    ELSE IF n < 10 THEN Char("0123456789", n + 1)
    ELSE Itoa(n \div 10) \o Char("0123456789", (n % 10) + 1)

\* %d
FormatD(n) == Itoa(n)

\* %02d
FormatD02(n) ==
    IF Len(Itoa(n)) >= 2 THEN Itoa(n)
    ELSE IF n < 0 THEN "-" \o "0" \o Itoa(0 - n)
    ELSE "0" \o Itoa(n)

NormalizedUnpadded(v) ==
    IF ~Validate(v) THEN InvalidVersion
    ELSE LET vParts == splitVersion(v)
         IN  IF Len(vParts) < 3 THEN Panic(IndexOutOfRange)
             ELSE Ok(FormatD(StrconvAtoi(PartAt(vParts, 0)))
                     \o FormatD(StrconvAtoi(PartAt(vParts, 1)))
                     \o FormatD(StrconvAtoi(PartAt(vParts, 2))))

Normalized(v) ==
    IF ~Validate(v) THEN InvalidVersion
    ELSE LET vParts == splitVersion(v)
         IN  IF Len(vParts) < 3 THEN Panic(IndexOutOfRange)
             ELSE Ok(FormatD(StrconvAtoi(PartAt(vParts, 0)))
                     \o FormatD02(StrconvAtoi(PartAt(vParts, 1)))
                     \o FormatD02(StrconvAtoi(PartAt(vParts, 2))))

\* the order of two characters in their byte order (the texts compared
\* are the outputs of Normalized: digits and the sign)
ByteRank(c) == CHOOSE k \in 1..11 : Char("-0123456789", k) = c

\* a < b on Go strings: bytewise lexicographic
StrLess(a, b) ==
    LET n == Min({Len(a), Len(b)})
        D == {k \in 1..n : Char(a, k) # Char(b, k)}
    IN  IF D = {} THEN Len(a) < Len(b)
        ELSE ByteRank(Char(a, Min(D))) < ByteRank(Char(b, Min(D)))

CompareWithRelease(v1, v2) ==
    IF ~Validate(v1) THEN InvalidVersion
    ELSE IF ~Validate(v2) THEN InvalidVersion
    ELSE IF Normalized(v1).kind = "panic" THEN Normalized(v1)
    ELSE IF Normalized(v2).kind = "panic" THEN Normalized(v2)
    ELSE LET normV1 == Normalized(v1).val
             normV2 == Normalized(v2).val
         IN  IF StrLess(normV1, normV2) THEN Ok(-1)
             ELSE IF StrLess(normV2, normV1) THEN Ok(1)
             ELSE IF Len(v1) < Len(v2) THEN Ok(-1)
             ELSE IF Len(v2) < Len(v1) THEN Ok(1)
             ELSE Ok(0)

Compare(v1, v2) ==
    IF ~Validate(v1) THEN InvalidVersion
    ELSE IF ~Validate(v2) THEN InvalidVersion
    ELSE IF Normalized(v1).kind = "panic" THEN Normalized(v1)
    ELSE IF Normalized(v2).kind = "panic" THEN Normalized(v2)
    ELSE LET normV1 == Normalized(v1).val
             normV2 == Normalized(v2).val
         IN  IF StrLess(normV1, normV2) THEN Ok(-1)
             ELSE IF StrLess(normV2, normV1) THEN Ok(1)
             ELSE Ok(0)


\* version strings handed to the package
MaxSuffix == 4    \* characters of a release suffix after its "-"

VerMajors == {"5", "8", "4", "9", "8a"}

VerMinors == {"0", "7", "0c"}

VerPatches == {"9", "30", "55", "300", "30d"}

VerSeparators == {".", "-", NL}

VerPatchSeparators == {".", "-", "x"}

VerSuffixes ==
    {"", "-r" \o NL \o "x"}
        \cup {"-" \o SubSeq("rel1-2.3", 1, n) : n \in 0..MaxSuffix}

Versions ==
    {"", "8", "8.0", "8.0."}
        \cup {ma \o s1 \o mi \o s2 \o pa \o su :
                ma \in VerMajors, s1 \in VerSeparators, mi \in VerMinors,
                s2 \in VerPatchSeparators, pa \in VerPatches,
                su \in VerSuffixes}

\* the second argument of Compare
OtherVersions ==
    {"5.7.55", "8.0.30", "8.0.30-rel1", "8.0.9", "5.7.9-x", "9.0.30",
     "8-0-30"}

\* the tableparser package is not in use
NoTable ==
    /\ ddl = ""
    /\ parsed = NotCalled
    /\ tbl = ZeroTable
    /\ arg = ""
    /\ enum = <<>>
    /\ idxs = <<>>
    /\ best = NotCalled
    /\ kres = NotCalled

DoValidate ==
    /\ op = "idle"
    /\ vres' = Ok(Validate(ver))
    /\ op' = "Validate"
    /\ UNCHANGED <<ver, ver2, tableVars, quoterVars, dsnVars>>

DoMajor ==
    /\ op = "idle"
    /\ vres' = Major(ver)
    /\ op' = "Major"
    /\ UNCHANGED <<ver, ver2, tableVars, quoterVars, dsnVars>>

DoMinor ==
    /\ op = "idle"
    /\ vres' = Minor(ver)
    /\ op' = "Minor"
    /\ UNCHANGED <<ver, ver2, tableVars, quoterVars, dsnVars>>

DoRelease ==
    /\ op = "idle"
    /\ vres' = Release(ver)
    /\ op' = "Release"
    /\ UNCHANGED <<ver, ver2, tableVars, quoterVars, dsnVars>>

DoNormalized ==
    /\ op = "idle"
    /\ vres' = Normalized(ver)
    /\ op' = "Normalized"
    /\ UNCHANGED <<ver, ver2, tableVars, quoterVars, dsnVars>>

DoCompare ==
    /\ op = "idle"
    /\ \E v2 \in OtherVersions :
          /\ ver2' = v2
          /\ vres' = Compare(ver, v2)
    /\ op' = "Compare"
    /\ UNCHANGED <<ver, tableVars, quoterVars, dsnVars>>

VersionInit ==
    /\ op = "idle"
    /\ ver \in Versions
    /\ ver2 = ""
    /\ vres = NotCalled
    /\ NoTable
    /\ NoQuoter
    /\ NoDsn

VersionNext ==
    DoValidate \/ DoMajor \/ DoMinor \/ DoRelease \/ DoNormalized \/ DoCompare

VersionSpec == VersionInit /\ [][VersionNext]_vars

----------------------------------------------------------------------------
(* Properties of package version                                            *)

\* position of the first character after the patch digits of v
PatchEnd(v) == IF Char(v, 6) \in Digits THEN 7 ELSE 6

\* the version format: a major digit 5 or 8, ".", one minor digit, ".",
\* one or two patch digits, then nothing or "-" and a suffix without newline
WellFormedVersion(v) ==
    /\ Char(v, 1) \in {"5", "8"}
    /\ Char(v, 2) = "."
    /\ Char(v, 3) \in Digits
    /\ Char(v, 4) = "."
    /\ Char(v, 5) \in Digits
    /\ \/ Len(v) = PatchEnd(v) - 1
       \/ /\ Char(v, PatchEnd(v)) = "-"
          /\ \A j \in PatchEnd(v)..Len(v) : Char(v, j) # NL

PatchDigits(v) == SubSeq(v, 5, PatchEnd(v) - 1)

\* major*10000 + minor*100 + patch of a well-formed version
VersionNumber(v) ==
    DigitVal(Char(v, 1)) * 10000 + DigitVal(Char(v, 3)) * 100
        + Atoi(PatchDigits(v))

Sign(n) == IF n < 0 THEN -1 ELSE IF n > 0 THEN 1 ELSE 0

\* C13: for two well-formed versions Compare returns the sign of the
\* difference of their major*10000 + minor*100 + patch; release suffixes
\* do not count.
C13_CompareIsNumeric ==
    (op = "Compare" /\ WellFormedVersion(ver) /\ WellFormedVersion(ver2)) =>
        vres = Ok(Sign(VersionNumber(ver) - VersionNumber(ver2)))

C13_Witness ==
    /\ op = "Compare"
    /\ ver = "8.0.30-rel"
    /\ ver2 = "8.0.30-rel1"
    /\ vres = Ok(0)

\* C14: Validate answers true exactly for the well-formed versions.
C14_ValidateIsTheFormat ==
    op = "Validate" => vres = Ok(WellFormedVersion(ver))


\* C15: Major, Minor, Release and Normalized return the invalid-version
\* error exactly when Validate rejects their argument, Compare exactly when
\* Validate rejects one of its two arguments; no other error is returned,
\* and a well-formed version gets a result.
C15_ErrorIffRejected ==
    /\ op \in {"Major", "Minor", "Release", "Normalized"} =>
          /\ vres.kind = "error" <=> ~Validate(ver)
          /\ vres.kind = "error" => vres = InvalidVersion
          /\ WellFormedVersion(ver) => vres.kind = "ok"
    /\ op = "Compare" =>
          /\ vres.kind = "error" <=> (~Validate(ver) \/ ~Validate(ver2))
          /\ vres.kind = "error" => vres = InvalidVersion
          /\ (WellFormedVersion(ver) /\ WellFormedVersion(ver2)) =>
                vres.kind = "ok"

C15_Witness ==
    /\ op = "Compare"
    /\ Validate(ver)
    /\ ~Validate(ver2)
    /\ vres = InvalidVersion

\* the release suffix of a well-formed version, its "-" included; empty
\* when the version ends with its patch digits
SuffixOf(v) == SubSeq(v, PatchEnd(v), Len(v))

\* C16: for a well-formed version Major returns the major digit, Minor the
\* minor digit, "." and the patch digits, and Release the suffix with its
\* "-", or the empty text when the version has no suffix.
C16_PartsOfAVersion ==
    WellFormedVersion(ver) =>
        /\ op = "Major" => vres = Ok(Char(ver, 1))
        /\ op = "Minor" => vres = Ok(Char(ver, 3) \o "." \o PatchDigits(ver))
        /\ op = "Release" => vres = Ok(SuffixOf(ver))

\* C17: for a well-formed version Normalized returns five digits: the
\* major digit, the minor digit after a "0", and the patch digits padded
\* with a "0" to two; the suffix does not count.
C17_FiveDigits ==
    (op = "Normalized" /\ WellFormedVersion(ver)) =>
        /\ vres.kind = "ok"
        /\ Len(vres.val) = 5
        /\ \A j \in 1..5 : Char(vres.val, j) \in Digits
        /\ vres.val = Char(ver, 1) \o "0" \o Char(ver, 3)
                        \o (IF Len(PatchDigits(ver)) = 1 THEN "0" ELSE "")
                        \o PatchDigits(ver)

C17_Witness ==
    /\ op = "Normalized"
    /\ ver = "8.0.9-rel"
    /\ vres = Ok("80009")

----------------------------------------------------------------------------
(* Package quoter: Backtick and Splitunbacktick                             *)

\* the loop of Backtick: each element between quote characters, the quote
\* characters inside it doubled, then a "."
RECURSIVE BacktickLoop(_, _)
BacktickLoop(vals, retval) ==
    IF Len(vals) = 0 THEN retval
    ELSE BacktickLoop(Tail(vals),
                      retval \o BQ \o ReplaceAll(Head(vals), BQ, BQ \o BQ)
                             \o BQ \o ".")

BacktickUntrimmed(vals) == BacktickLoop(vals, "")

Backtick(vals) == TrimRight(BacktickLoop(vals, ""), ".")

Unbacktick(s) == ReplaceAll(TrimLeft(TrimRight(s, BQ), BQ), BQ \o BQ, BQ)

Splitunbacktick(dbtbl, defdb) ==
    LET res == Split(dbtbl, ".")
        db == IF Len(res) = 2 THEN res[1] ELSE defdb
        tb == IF Len(res) = 2 THEN res[2] ELSE res[1]
    IN  <<Unbacktick(db), Unbacktick(tb)>>

\* names handed to the package
MaxParts == 2    \* parts of a name

Idents == {"a", "b", "my db", "a.b", "a'b", "'a'", ""}

DefaultDbs == {"", "test"}

PartSeqs == UNION {[1..n -> Idents] : n \in 0..MaxParts}

DoBacktick ==
    /\ op = "idle"
    /\ qtext' = Backtick(qparts)
    /\ qres' = Ok(qtext')
    /\ op' = "Backtick"
    /\ UNCHANGED <<qparts, qdef, tableVars, versionVars, dsnVars>>

\* on the dotted name as the caller wrote it, or on the output of Backtick
DoSplitunbacktick ==
    /\ op \in {"idle", "Backtick"}
    /\ qres' = Ok(Splitunbacktick(qtext, qdef))
    /\ op' = "Splitunbacktick"
    /\ UNCHANGED <<qparts, qdef, qtext, tableVars, versionVars, dsnVars>>

QuoterInit ==
    /\ op = "idle"
    /\ qparts \in PartSeqs
    /\ qdef \in DefaultDbs
    /\ qtext = Join(qparts, ".")
    /\ qres = NotCalled
    /\ NoTable
    /\ NoVersion
    /\ NoDsn

QuoterNext == DoBacktick \/ DoSplitunbacktick

QuoterSpec == QuoterInit /\ [][QuoterNext]_vars

----------------------------------------------------------------------------
(* Properties of package quoter                                             *)

RECURSIVE Doubled(_)
Doubled(s) ==
    IF Len(s) = 0 THEN ""
    ELSE (IF Char(s, 1) = BQ THEN BQ \o BQ ELSE Char(s, 1))
            \o Doubled(SubSeq(s, 2, Len(s)))

NoQuoteIn(s) == ~Contains(s, BQ)

\* C18: Backtick returns its parts joined by ".", each between two quote
\* characters with the quote characters inside it doubled; no part gives
\* the empty text.
C18_BacktickJoinsQuotedParts ==
    op = "Backtick" =>
        qres = Ok(Join([i \in 1..Len(qparts) |->
                            BQ \o Doubled(qparts[i]) \o BQ], "."))

C18_Witness ==
    /\ op = "Backtick"
    /\ qparts = <<"a'b", "b">>
    /\ qres = Ok("'a''b'.'b'")

\* C19: for two identifiers a and b without a quote character,
\* Splitunbacktick of Backtick of <<a, b>> with an empty default returns
\* a and b.
C19_RoundTrip ==
    (/\ op = "Splitunbacktick"
     /\ Len(qparts) = 2
     /\ qtext = Backtick(qparts)
     /\ qdef = ""
     /\ NoQuoteIn(qparts[1])
     /\ NoQuoteIn(qparts[2])) =>
        qres = Ok(<<qparts[1], qparts[2]>>)

\* C20: Splitunbacktick splits at the first "." outside a quoted part and
\* nowhere else.  An unquoted text is cut at its first "."; without one it
\* is the identifier and the default is the namespace; the "." inside a
\* quoted part stays in the part.
C20_SplitsAtFirstUnquotedDot ==
    op = "Splitunbacktick" =>
        /\ (NoQuoteIn(qtext) /\ ~Contains(qtext, ".")) =>
              qres = Ok(<<qdef, qtext>>)
        /\ (NoQuoteIn(qtext) /\ Contains(qtext, ".")) =>
              qres = Ok(<<SubSeq(qtext, 1, FirstIn(qtext, 1, {"."}) - 1),
                          SubSeq(qtext, FirstIn(qtext, 1, {"."}) + 1,
                                 Len(qtext))>>)
        /\ (Len(qparts) = 1 /\ NoQuoteIn(qparts[1])
                /\ qtext = Backtick(qparts)) =>
              qres = Ok(<<qdef, qparts[1]>>)
        /\ (Len(qparts) = 2 /\ NoQuoteIn(qparts[1]) /\ NoQuoteIn(qparts[2])
                /\ qtext = Backtick(qparts)) =>
              qres = Ok(<<qparts[1], qparts[2]>>)

----------------------------------------------------------------------------
(* Further properties of the index selector and of Parse                    *)

\* what the ranking rules look at in a key: PRIMARY, unique, a nullable
\* member column, the number of member columns
RankOf(k) ==
    <<k.name = "PRIMARY", k.unique, HasNullableColumn(k),
      Cardinality(DOMAIN k.cols)>>

\* C22: the comparison of Sortindexes is antisymmetric on the BTREE keys of
\* a table, and when the keys differ pairwise on a ranking rule Sortindexes
\* returns the same sequence for every enumeration order of the key map.
C22_Deterministic ==
    op = "Sortindexes" =>
        /\ \A m, n \in BtreeNames :
              m # n => sortFunc(tbl.keys[n], tbl.keys[m])
                          = 0 - sortFunc(tbl.keys[m], tbl.keys[n])
        /\ (\A m, n \in BtreeNames :
                m # n => RankOf(tbl.keys[m]) # RankOf(tbl.keys[n])) =>
              \A order \in KeyOrders(tbl) : Sortindexes(tbl, order) = idxs


\* the data-type token of each line of ColumnLinePool
ColumnTypePool == <<"int", "char(40)", "decimal(10,2)", "bigint">>

NumericTypeWords == {"int", "float", "double", "decimal", "year"}

\* C23: for a definition with column lines Parse returns a table in which
\* the column of each line is not nullable exactly when the line contains
\* NOT NULL, generated exactly when it contains GENERATED ALWAYS AS,
\* auto-increment exactly when it contains AUTO_INCREMENT, and numeric
\* exactly when its data-type token contains int, float, double, decimal
\* or year.
C23_ColumnFlags ==
    op = "Parse" =>
        \A h \in NamedHeaders, S \in SUBSET (1..MaxCols),
           k \in KeyLineChoices, t \in WellFormedTrailers :
            (S # {} /\ ddl = MkDDL(h, S, k, t)) =>
                /\ parsed.kind = "ok"
                /\ \A i \in S :
                      /\ ColumnNamePool[i] \in DOMAIN parsed.val.cols
                      /\ LET c == parsed.val.cols[ColumnNamePool[i]]
                             line == ColumnLinePool[i]
                         IN  /\ c.nullable = ~Contains(line, "NOT NULL")
                             /\ c.generated
                                  = Contains(line, "GENERATED ALWAYS AS")
                             /\ c.autoinc = Contains(line, "AUTO_INCREMENT")
                             /\ c.numeric
                                  = (\E w \in NumericTypeWords :
                                        Contains(ColumnTypePool[i], w))

----------------------------------------------------------------------------
(* GetKeys on the key lines of a definition                                 *)

\* the key lines chosen by p and f, one per line, as SHOW CREATE TABLE
\* writes them
KeyText(p, f) ==
    LET pk == IF p = "none" THEN <<>> ELSE <<PrimaryLine(p)>>
        sk(i) == IF f[i][1] = "none" THEN <<>>
                 ELSE <<SecondaryLine(f[i][1], KeyNamePool[i], f[i][2])>>
        RECURSIVE All(_)
        All(i) == IF i = 0 THEN pk ELSE All(i - 1) \o sk(i)
    IN  Join(All(MaxKeys), NL)

KeyTexts ==
    {KeyText(p, f) : p \in PrimaryOptions,
                     f \in [1..MaxKeys -> SecondaryOptions]}

DoGetKeys ==
    /\ op = "idle"
    /\ kres' = IF GetKeys(ddl).panic THEN Panic(IndexOutOfRange)
               ELSE Ok(GetKeys(ddl).val)
    /\ op' = "GetKeys"
    /\ UNCHANGED <<ddl, parsed, tbl, arg, enum, idxs, best, versionVars,
                   quoterVars, dsnVars>>

KeysInit ==
    /\ op = "idle"
    /\ ddl \in KeyTexts
    /\ parsed = NotCalled
    /\ tbl = ZeroTable
    /\ arg = ""
    /\ enum = <<>>
    /\ idxs = <<>>
    /\ best = NotCalled
    /\ kres = NotCalled
    /\ NoVersion
    /\ NoQuoter
    /\ NoDsn

KeysNext == DoGetKeys

KeysSpec == KeysInit /\ [][KeysNext]_vars

----------------------------------------------------------------------------
(* Properties of GetKeys                                                    *)

\* the names of the secondary key lines of the text
SecondaryNamesIn(s) ==
    {n \in SecondaryNames : Contains(s, "KEY '" \o n \o "' (")}

HasPrimaryLine(s) == Contains(s, "  PRIMARY KEY (")

\* the key line of n carries the modifier w
HasModifier(s, n, w) == Contains(s, w \o " KEY '" \o n \o "' (")

\* C24: in a key mapping returned by GetKeys at most one key is primary,
\* it is named PRIMARY, unique and BTREE; every secondary key is not
\* primary, RTREE for SPATIAL, TEXT for FULLTEXT and BTREE otherwise, and
\* unique exactly for UNIQUE.
C24_KeyKinds ==
    (op = "GetKeys" /\ kres.kind = "ok") =>
        /\ \A n \in DOMAIN kres.val :
              kres.val[n].primary =>
                  /\ n = "PRIMARY"
                  /\ kres.val[n].name = "PRIMARY"
                  /\ kres.val[n].unique
                  /\ kres.val[n].keyType = "BTREE"
        /\ Cardinality({n \in DOMAIN kres.val : kres.val[n].primary}) <= 1
        /\ \A n \in SecondaryNamesIn(ddl) :
              /\ n \in DOMAIN kres.val
              /\ ~kres.val[n].primary
              /\ kres.val[n].keyType
                    = (IF HasModifier(ddl, n, "SPATIAL") THEN "RTREE"
                       ELSE IF HasModifier(ddl, n, "FULLTEXT") THEN "TEXT"
                       ELSE "BTREE")
              /\ kres.val[n].unique = HasModifier(ddl, n, "UNIQUE")

C24_Witness ==
    /\ op = "GetKeys"
    /\ kres.kind = "ok"
    /\ "PRIMARY" \in DOMAIN kres.val
    /\ kres.val["PRIMARY"].primary
    /\ \E n \in SecondaryNamesIn(ddl) :
          HasModifier(ddl, n, "SPATIAL") /\ kres.val[n].keyType = "RTREE"
    /\ \E n \in SecondaryNamesIn(ddl) :
          HasModifier(ddl, n, "UNIQUE") /\ kres.val[n].unique


\* C25: for a text without a PRIMARY KEY line GetKeys returns the mapping
\* of exactly the secondary keys of the text, the empty mapping when
\* there is no key line.
C25_NoPrimaryLine ==
    (op = "GetKeys" /\ ~HasPrimaryLine(ddl)) =>
        /\ kres.kind = "ok"
        /\ DOMAIN kres.val = SecondaryNamesIn(ddl)

\* the orders in which "range k.cols" may enumerate the member columns of
\* a key: cols is a Go map, enumerated in no fixed order
ColOrders(k) ==
    LET K == DOMAIN k.cols
    IN  {o \in [1..Cardinality(K) -> K] :
            \A i, j \in 1..Cardinality(K) : i # j => o[i] # o[j]}

\* the column names between the parentheses of the key line of n, in the
\* order the line gives them
DeclaredColumns(s, n) ==
    LET marker == IF n = "PRIMARY" THEN "  PRIMARY KEY ("
                  ELSE "KEY '" \o n \o "' ("
        i == Min({j \in 1..Len(s) : HasAt(s, j, marker)})
        start == i + Len(marker)
        close == FirstIn(s, start, {")"})
        el == Split(SubSeq(s, start, close - 1), ",")
    IN  [j \in 1..Len(el) |-> SubSeq(el[j], 2, Len(el[j]) - 1)]

\* C26: the member columns of a key keep their declaration order:
\* enumerating them gives the column names of the key line in the order of
\* the line, one per declared column.
C26_ColumnsInDeclarationOrder ==
    (op = "GetKeys" /\ kres.kind = "ok") =>
        \A n \in DOMAIN kres.val :
            \A o \in ColOrders(kres.val[n]) : o = DeclaredColumns(ddl, n)

----------------------------------------------------------------------------
(* Further property of package quoter                                       *)

QuoteAtAnEnd(s) == Char(s, 1) = BQ \/ Char(s, Len(s)) = BQ

\* C27: Splitunbacktick takes one quote character off each end of a part
\* before it un-doubles the doubled ones, so for identifiers a and b
\* (without ".") of which one begins or ends with a quote character,
\* Splitunbacktick of Backtick of <<a, b>> with an empty default returns a
\* and b.
C27_OneQuoteOffEachEnd ==
    (/\ op = "Splitunbacktick"
     /\ Len(qparts) = 2
     /\ qtext = Backtick(qparts)
     /\ qdef = ""
     /\ ~Contains(qparts[1], ".")
     /\ ~Contains(qparts[2], ".")
     /\ QuoteAtAnEnd(qparts[1]) \/ QuoteAtAnEnd(qparts[2])) =>
        qres = Ok(<<qparts[1], qparts[2]>>)

----------------------------------------------------------------------------
(* Package dsn (src/go/pkg/dsn/dsn.go): Validate, init, Parse               *)

DQ == "\""

\* the loop of SplitAtCommas from position i (counted from 1): beg is the
\* start of the current piece, inString tells whether i is inside a string
RECURSIVE SplitAtCommasLoop(_, _, _, _, _)
SplitAtCommasLoop(s, i, beg, inString, res) ==
    IF i > Len(s) THEN res \o <<SubSeq(s, beg, Len(s))>>
    ELSE IF Char(s, i) = "," /\ ~inString
    THEN SplitAtCommasLoop(s, i + 1, i + 1, inString,
                           res \o <<SubSeq(s, beg, i - 1)>>)
    ELSE IF Char(s, i) = DQ
    THEN SplitAtCommasLoop(s, i + 1, beg,
                           IF ~inString THEN TRUE
                           ELSE IF i > 1 /\ Char(s, i - 1) # "\\" THEN FALSE
                           ELSE inString,
                           res)
    ELSE SplitAtCommasLoop(s, i + 1, beg, inString, res)

SplitAtCommas(s) == SplitAtCommasLoop(s, 1, 1, FALSE, <<>>)

\* ^(A|b|D|F|h|L|p|P|s|S|u|v|x){1}$
DsnKeys == {"A", "b", "D", "F", "h", "L", "p", "P", "s", "S", "u", "v", "x"}

\* ^[[:digit:]]*$
AllDigits(s) == \A j \in 1..Len(s) : Char(s, j) \in Digits

\* the body of the loop of Validate for one parameter: the message of the
\* error it returns, "" when it returns none
ParamError(param) ==
    LET pSplit == Split(param, "=")
    IN  IF ~Contains(param, "=")
        THEN "Parameter '" \o param \o "' is missing an '='"
        ELSE IF pSplit[1] \notin DsnKeys
        THEN "Unknown parameter '" \o pSplit[1] \o "'"
        ELSE IF pSplit[1] = "P" /\ ~AllDigits(pSplit[2])
        THEN "Port value must be composed of digits, received: '"
                \o pSplit[2] \o "'"
        ELSE IF /\ pSplit[1] = "P"
                /\ \/ StrconvAtoi(pSplit[2]) < 1
                   \/ StrconvAtoi(pSplit[2]) > 65535
        THEN "Port value should be between 1 and 65535, value submitted was '"
                \o pSplit[2] \o "'"
        ELSE ""

\* Validate: nil, or the error of the first parameter that has one
DsnValidate(dsnValue) ==
    LET params == SplitAtCommas(dsnValue)
        bad == {i \in 1..Len(params) : ParamError(params[i]) # ""}
    IN  IF bad = {} THEN Ok("nil") ELSE Error(ParamError(params[Min(bad)]))

DsnInit(D) ==
    [D EXCEPT !.SkipBinlog = FALSE, !.Database = "", !.Host = "",
              !.Password = "", !.Port = 3306, !.Socket = "", !.Ssl = TRUE,
              !.Table = "", !.User = "", !.Dbh = 0, !.Setvars = "",
              !.Extra = "parseTime=true"]

\* strconv.ParseBool
ParseBool(s) ==
    IF s \in {"1", "t", "T", "TRUE", "true", "True"} THEN Ok(TRUE)
    ELSE IF s \in {"0", "f", "F", "FALSE", "false", "False"} THEN Ok(FALSE)
    ELSE Error("invalid syntax")

\* one turn of the loop of Parse: the Dsn after it and the error it
\* returns with ("" for none); statOk says whether os.Stat finds the socket
\* file
ParseParam(D, param, statOk) ==
    LET pSplit == Split(param, "=")
        key == pSplit[1]
        val == pSplit[2]
    IN  IF key = "A" THEN [dsn |-> [D EXCEPT !.Charset = val], err |-> ""]
        ELSE IF key = "b"
        THEN [dsn |-> [D EXCEPT !.SkipBinlog = ValueOr(ParseBool(val), FALSE)],
              err |-> IF ParseBool(val).kind = "ok" THEN ""
                      ELSE "Failed to parse '" \o val
                              \o "' as boolean for parameter 'b'"]
        ELSE IF key = "D" THEN [dsn |-> [D EXCEPT !.Database = val], err |-> ""]
        ELSE IF key = "h" THEN [dsn |-> [D EXCEPT !.Host = val], err |-> ""]
        ELSE IF key = "P"
        THEN [dsn |-> [D EXCEPT !.Port = StrconvAtoi(val) % 65536], err |-> ""]
        ELSE IF key = "p" THEN [dsn |-> [D EXCEPT !.Password = val], err |-> ""]
        ELSE IF key = "S"
        THEN [dsn |-> [D EXCEPT !.Socket = val],
              err |-> IF statOk THEN ""
                      ELSE "Socket file '" \o val
                              \o "' does not exist or is not accessible"]
        ELSE IF key = "v"
        THEN [dsn |-> IF Len(D.Setvars) > 0
                      THEN [D EXCEPT !.Setvars = D.Setvars \o "," \o val]
                      ELSE D,
              err |-> ""]
        ELSE IF key = "s"
        THEN [dsn |-> [D EXCEPT !.Ssl = ValueOr(ParseBool(val), FALSE)],
              err |-> IF ParseBool(val).kind = "ok" THEN ""
                      ELSE "Failed to parse '" \o val
                              \o "' as boolean for parameter 's'"]
        ELSE IF key = "t" THEN [dsn |-> [D EXCEPT !.Table = val], err |-> ""]
        ELSE IF key = "u" THEN [dsn |-> [D EXCEPT !.User = val], err |-> ""]
        ELSE IF key = "x" THEN [dsn |-> [D EXCEPT !.Extra = val], err |-> ""]
        ELSE [dsn |-> D, err |-> ""]

RECURSIVE ParseLoop(_, _, _)
ParseLoop(D, params, statOk) ==
    IF Len(params) = 0 THEN [dsn |-> D, res |-> Ok("nil")]
    ELSE LET step == ParseParam(D, Head(params), statOk)
         IN  IF step.err # "" THEN [dsn |-> step.dsn, res |-> Error(step.err)]
             ELSE ParseLoop(step.dsn, Tail(params), statOk)

\* Dsn.Parse: the Dsn after the call and what the call returns
DsnParse(D, dsnValue, statOk) ==
    IF DsnValidate(dsnValue).kind = "error"
    THEN [dsn |-> DsnInit(D), res |-> DsnValidate(dsnValue)]
    ELSE ParseLoop(DsnInit(D), SplitAtCommas(dsnValue), statOk)


----------------------------------------------------------------------------
(* Getconn.  The database is the environment: sql.Open, Ping and Query     *)
(* succeed or fail as it chooses.  handles[h] is the h-th sql.DB opened:    *)
(* whether it is still open and the statements it has executed.  trace is   *)
(* the sequence of driver calls of the last Getconn.                        *)

Ev(ev, h, ok, stmt) == [ev |-> ev, h |-> h, ok |-> ok, stmt |-> stmt]

\* "SET " + vars[i] + ";" for the first n entries of Setvars
SetStatements(D, n) ==
    [i \in 1..n |-> "SET " \o Split(D.Setvars, ",")[i] \o ";"]

\* sql.Open followed by the Query loop on the new handle: answered is the
\* number of statements the server accepts before it fails one, closeOnReturn
\* is the deferred Close of the handle
OpenAndSet(D, hs, stmts, openOk, answered, closeOnReturn, before) ==
    LET h == Len(hs) + 1
        ran == Min({answered + 1, Len(stmts)})
        queries == [i \in 1..ran |-> Ev("Query", h, i <= answered, stmts[i])]
    IN  IF ~openOk
        THEN [dsn |-> [D EXCEPT !.Dbh = 0], res |-> Error("sql.Open"),
              handles |-> hs,
              trace |-> before \o <<Ev("Open", 0, FALSE, "")>>]
        ELSE [dsn |-> [D EXCEPT !.Dbh = h],
              res |-> IF answered >= Len(stmts) THEN Ok(h)
                      ELSE Error("Query"),
              handles |-> Append(hs,
                  [open |-> ~closeOnReturn,
                   stmts |-> SubSeq(stmts, 1, Min({answered, Len(stmts)}))]),
              trace |-> before \o <<Ev("Open", h, TRUE, "")>> \o queries
                        \o IF closeOnReturn THEN <<Ev("Close", h, TRUE, "")>>
                           ELSE <<>>]

\* Getconn of go/pkg/dsn: both loops stop at len(vars)-1
Getconn(D, hs, openOk, pingOk, answered) ==
    LET sets == SetStatements(D, Len(Split(D.Setvars, ",")) - 1)
    IN  IF D.Dbh = 0
        THEN OpenAndSet(D, hs,
                        (IF D.SkipBinlog THEN <<"SET SQL_LOG_BIN = 0;">>
                         ELSE <<>>) \o sets,
                        openOk, answered, FALSE, <<>>)
        ELSE IF pingOk
        THEN [dsn |-> D, res |-> Ok(D.Dbh), handles |-> hs,
              trace |-> <<Ev("Ping", D.Dbh, TRUE, "")>>]
        ELSE OpenAndSet(D, [hs EXCEPT ![D.Dbh].open = FALSE], sets,
                        openOk, answered, FALSE,
                        <<Ev("Ping", D.Dbh, FALSE, ""),
                          Ev("Close", D.Dbh, TRUE, "")>>)

\* Getconn of the second copy of the package (src/unnamed/part_004): the
\* handle is closed by a deferred Close, the loop runs over all of vars on
\* the first connection and there is no loop on a reconnection
GetconnDeferClose(D, hs, openOk, pingOk, answered) ==
    IF D.Dbh = 0
    THEN OpenAndSet(D, hs, SetStatements(D, Len(Split(D.Setvars, ","))),
                    openOk, answered, TRUE, <<>>)
    ELSE IF pingOk
    THEN [dsn |-> D, res |-> Ok(D.Dbh), handles |-> hs,
          trace |-> <<Ev("Ping", D.Dbh, TRUE, "")>>]
    ELSE OpenAndSet(D, [hs EXCEPT ![D.Dbh].open = FALSE], <<>>,
                    openOk, answered, TRUE,
                    <<Ev("Ping", D.Dbh, FALSE, ""),
                      Ev("Close", D.Dbh, TRUE, "")>>)

\* setVars of the second copy
setVars(D, v) ==
    IF ~Contains(v, "=")
    THEN [dsn |-> D,
          res |-> Error("The variable provided: '" \o v
                           \o "' is missing an '='")]
    ELSE [dsn |-> [D EXCEPT !.Setvars = v], res |-> Ok("nil")]

----------------------------------------------------------------------------
(* The callers of the dsn package                                          *)

MaxConns == 2

PkgDsn == "go/pkg/dsn"
UnnamedDsn == "unnamed/part_004"
DsnPackages == {PkgDsn, UnnamedDsn}

DsnGoodParams ==
    {"h=db1", "P=3307", "b=true", "A=latin1", "S=/tmp/s", "v=a=1", "L=1"}

DsnBadParams ==
    {"P=abc", "P=-1", "P=70000", "P=0", "L=2", "L", "z=aef", "b=maybe",
     "t=tbl"}

DsnLeadParams == {"h=db1", "b=true", "A=latin1", "v=\"x=1,y=2\""}

DsnTexts ==
    {""} \cup DsnGoodParams \cup DsnBadParams \cup DsnLeadParams
    \cup {a \o "," \o b : a \in DsnLeadParams,
                          b \in DsnGoodParams \cup DsnBadParams}

SetvarsPool == {"", "a=1", "a=1,b=2", "a"}

\* more than the statements of any one call
Answers == 0..3

DoDsnValidate ==
    /\ op = "idle"
    /\ dpkg = PkgDsn
    /\ dres' = DsnValidate(dtext)
    /\ op' = "DsnValidate"
    /\ UNCHANGED <<dpkg, dtext, dsn, handles, trace, tableVars, versionVars,
                   quoterVars>>

\* Parse, on a Dsn that has not connected yet
DoDsnParse ==
    /\ op \in {"idle", "DsnParse", "Setvars"}
    /\ dpkg = PkgDsn
    /\ \E text \in DsnTexts, statOk \in BOOLEAN :
          /\ dtext' = text
          /\ dsn' = DsnParse(dsn, text, statOk).dsn
          /\ dres' = DsnParse(dsn, text, statOk).res
    /\ op' = "DsnParse"
    /\ UNCHANGED <<dpkg, handles, trace, tableVars, versionVars, quoterVars>>

\* the caller stores the session variables in the exported field
DoAssignSetvars ==
    /\ op \in {"idle", "DsnParse"}
    /\ dpkg = PkgDsn
    /\ \E v \in SetvarsPool : dsn' = [dsn EXCEPT !.Setvars = v]
    /\ dtext' = ""
    /\ dres' = NotCalled
    /\ op' = "Setvars"
    /\ UNCHANGED <<dpkg, handles, trace, tableVars, versionVars, quoterVars>>

DoSetVars ==
    /\ op = "idle"
    /\ dpkg = UnnamedDsn
    /\ \E v \in SetvarsPool :
          /\ dsn' = setVars(dsn, v).dsn
          /\ dres' = setVars(dsn, v).res
    /\ op' = "Setvars"
    /\ UNCHANGED <<dpkg, dtext, handles, trace, tableVars, versionVars,
                   quoterVars>>

\* Ping on a closed handle fails
Connects(openOk, pingOk) ==
    /\ op \in {"idle", "DsnParse", "Setvars", "Getconn"}
    /\ op = "DsnParse" => dres.kind = "ok"
    /\ dsn.Dbh # 0 /\ pingOk => handles[dsn.Dbh].open
    /\ (dsn.Dbh = 0 \/ ~pingOk) /\ openOk => Len(handles) < MaxConns

DoGetconn ==
    /\ dpkg = PkgDsn
    /\ \E openOk \in BOOLEAN, pingOk \in BOOLEAN, answered \in Answers :
          LET r == Getconn(dsn, handles, openOk, pingOk, answered)
          IN  /\ Connects(openOk, pingOk)
              /\ dsn' = r.dsn
              /\ dres' = r.res
              /\ handles' = r.handles
              /\ trace' = r.trace
    /\ dtext' = ""
    /\ op' = "Getconn"
    /\ UNCHANGED <<dpkg, tableVars, versionVars, quoterVars>>

DoGetconnDeferClose ==
    /\ dpkg = UnnamedDsn
    /\ \E openOk \in BOOLEAN, pingOk \in BOOLEAN, answered \in Answers :
          LET r == GetconnDeferClose(dsn, handles, openOk, pingOk, answered)
          IN  /\ Connects(openOk, pingOk)
              /\ dsn' = r.dsn
              /\ dres' = r.res
              /\ handles' = r.handles
              /\ trace' = r.trace
    /\ dtext' = ""
    /\ op' = "Getconn"
    /\ UNCHANGED <<dpkg, tableVars, versionVars, quoterVars>>

DsnSpecInit ==
    /\ op = "idle"
    /\ dpkg \in DsnPackages
    /\ dtext \in IF dpkg = PkgDsn THEN DsnTexts ELSE {""}
    /\ dsn = DsnZero
    /\ dres = NotCalled
    /\ handles = <<>>
    /\ trace = <<>>
    /\ NoTable
    /\ NoVersion
    /\ NoQuoter

DsnNext ==
    \/ DoDsnValidate
    \/ DoDsnParse
    \/ DoAssignSetvars
    \/ DoSetVars
    \/ DoGetconn
    \/ DoGetconnDeferClose

DsnSpec == DsnSpecInit /\ [][DsnNext]_vars


----------------------------------------------------------------------------
(* Properties of the dsn package                                           *)

\* the error the checks of C21 give for one parameter, in their order:
\* missing '=', unknown key, non-digit port, port out of range, Local not
\* 0 or 1; "" when the parameter passes them all
ExpectedParamError(param) ==
    LET pSplit == Split(param, "=")
    IN  IF ParamError(param) # "" THEN ParamError(param)
        ELSE IF pSplit[1] = "L" /\ pSplit[2] \notin {"0", "1"}
        THEN "Local value must be 0 or 1, received: '" \o pSplit[2] \o "'"
        ELSE ""

FirstOffender(dsnValue) ==
    LET params == SplitAtCommas(dsnValue)
    IN  {i \in 1..Len(params) :
            /\ ExpectedParamError(params[i]) # ""
            /\ \A j \in 1..(i - 1) : ExpectedParamError(params[j]) = ""}

\* C21: Validate returns nil exactly when every parameter has an '=', an
\* allowed key, a port of digits between 1 and 65535 and a Local value of
\* 0 or 1; otherwise it returns the error of the first offending parameter,
\* the checks applied in that order.
C21_ValidateChecks ==
    op = "DsnValidate" =>
        LET params == SplitAtCommas(dtext)
        IN  IF FirstOffender(dtext) = {} THEN dres = Ok("nil")
            ELSE \E i \in FirstOffender(dtext) :
                    dres = Error(ExpectedParamError(params[i]))


\* the Dsn as init leaves a fresh one
DsnDefaults == DsnInit(DsnZero)

\* C28: after any sequence of Parse calls on the same Dsn, a Parse call that
\* returns an error leaves every field at its init default: nothing of an
\* earlier call survives and no parameter of the failing string is applied.
C28_ErrorLeavesDefaults ==
    op = "DsnParse" /\ dres.kind = "error" => dsn = DsnDefaults


\* the positions of the trace of the last Getconn that hold a call ev
\* with outcome ok
Calls(ev, ok) == {i \in 1..Len(trace) : trace[i].ev = ev /\ trace[i].ok = ok}

\* C29: after any sequence of Getconn calls on the same Dsn, a call that
\* returns a nil error returns the handle stored in the Dsn, and Getconn has
\* not closed that handle; while Ping succeeds the same handle is returned
\* and none is opened; when Ping fails the old handle is closed before a new
\* one is opened.
C29_HandleStaysOpen ==
    op = "Getconn" =>
        /\ dres.kind = "ok" =>
              /\ dsn.Dbh # 0
              /\ dres.val = dsn.Dbh
              /\ handles[dsn.Dbh].open
        /\ \A i \in Calls("Ping", TRUE) :
              /\ dres = Ok(trace[i].h)
              /\ Calls("Open", TRUE) \cup Calls("Open", FALSE) = {}
        /\ \A i \in Calls("Ping", FALSE) :
              /\ i < Len(trace)
              /\ trace[i + 1].ev = "Close"
              /\ trace[i + 1].h = trace[i].h
              /\ \A j \in Calls("Open", TRUE) \cup Calls("Open", FALSE) :
                    j > i + 1

\* the session statements C30 expects on a new connection: one SET for
\* each entry of Setvars, none when Setvars is empty
ExpectedSets(D) ==
    IF D.Setvars = "" THEN <<>>
    ELSE SetStatements(D, Len(Split(D.Setvars, ",")))

SessionSets(stmts) == SelectSeq(stmts, LAMBDA s : s # "SET SQL_LOG_BIN = 0;")

\* the parameters of a DSN text with key v
VParams(text) ==
    {i \in 1..Len(SplitAtCommas(text)) :
        HasAt(SplitAtCommas(text)[i], 1, "v=")}

\* C30: every connection Getconn newly opens (the first and each one after a
\* failed Ping) has one SET executed for each entry of Setvars, the last
\* included, and none for session variables when Setvars is empty; the
\* parameter v=<vars> given to Parse is what Setvars holds.
C30_SessionVariablesSet ==
    /\ op = "Getconn" /\ dres.kind = "ok" =>
          \A i \in Calls("Open", TRUE) :
              SessionSets(handles[trace[i].h].stmts) = ExpectedSets(dsn)
    /\ op = "DsnParse" /\ dres.kind = "ok" =>
          \A i \in VParams(dtext) :
              Cardinality(VParams(dtext)) = 1 =>
                  LET param == SplitAtCommas(dtext)[i]
                  IN  dsn.Setvars = SubSeq(param, 3, Len(param))

====
